---- MODULE Spec2Model ----
(***************************************************************************)
(* Model of app.py: the Streamlit page that loads a pickled pipeline once   *)
(* (st.cache_resource), collects the patient form, derives the engineered   *)
(* features and calls predict / predict_proba.                              *)
(*                                                                          *)
(* Numbers entered in the form are modelled as integers (the form steps by  *)
(* 1.0 from 0.0); a quotient is kept as the pair numerator / denominator.   *)
(***************************************************************************)
EXTENDS Integers, Sequences, FiniteSets, TLC

VARIABLES
    file,       \* what is stored at PIPELINE_FILEPATH on disk
    cache,      \* the st.cache_resource entry of load_pipeline(PIPELINE_FILEPATH)
    lock,       \* holder of the cache's compute lock, 0 when free
    pc,         \* per session: position of the running script
    loaded,     \* per session: what load_pipeline returned (value and st messages)
    readCount,  \* number of joblib.load calls made so far
    view,       \* what the last finished script run did and showed
    h_pc,       \* harness: position in the submit branch of main
    h_input,    \* harness: the DataFrame given to perform_feature_engineering
    h_result,   \* harness: what perform_feature_engineering returned or raised
    h_outcome   \* harness: how the submit branch ended

vars == <<file, cache, lock, pc, loaded, readCount, view,
          h_pc, h_input, h_result, h_outcome>>

appVars == <<file, cache, lock, pc, loaded, readCount, view>>
harnessVars == <<h_pc, h_input, h_result, h_outcome>>

-----------------------------------------------------------------------------
(* Bounds of the model *)

NumSessions == 2        \* browser sessions sharing the process
MaxReads == 3           \* cap on the joblib.load counter
AgeBelow == 1           \* ages run from -AgeBelow ...
MaxAge == 101           \* ... to MaxAge
MaxFirstSex == 17       \* First sexual intercourse runs 0..MaxFirstSex
MaxPregnancies == 2     \* Num of pregnancies runs 0..MaxPregnancies

Sessions == 1..NumSessions
Ages == (0 - AgeBelow)..MaxAge
FirstSexAges == 0..MaxFirstSex
Pregnancies == 0..MaxPregnancies

-----------------------------------------------------------------------------
(* Names *)

PIPELINE_FILEPATH == "optimized_cervical_cancer_model.pkl"

input_feature_list ==
    << "Age", "Number of sexual partners", "First sexual intercourse",
       "Num of pregnancies", "Smokes", "Smokes (years)", "Smokes (packs/year)",
       "Hormonal Contraceptives", "Hormonal Contraceptives (years)",
       "IUD", "IUD (years)", "STDs", "STDs (number)", "STDs:condylomatosis",
       "STDs:cervical condylomatosis", "STDs:vaginal condylomatosis",
       "STDs:vulvo-perineal condylomatosis", "STDs:syphilis",
       "STDs:pelvic inflammatory disease", "STDs:genital herpes",
       "STDs:molluscum contagiosum", "STDs:AIDS", "STDs:HIV",
       "STDs:Hepatitis B", "STDs:HPV", "STDs: Number of diagnosis",
       "STDs: Time since first diagnosis", "STDs: Time since last diagnosis" >>

\* The derived columns, in the order the training contract lists them.
DerivedNames ==
    << "Age_Group", "First_Sex_Age", "HPV_Exposure_Duration", "Pregnancy_Density" >>

\* The column sequence the trained pipeline was fit on.
required_columns == input_feature_list \o DerivedNames

Range(s) == { s[i] : i \in 1..Len(s) }

-----------------------------------------------------------------------------
(* A one-row DataFrame: its column sequence and the row's value per column *)

EmptyFrame == [cols |-> << >>, val |-> [c \in {} |-> 0]]

HasColumn(df, c) == c \in Range(df.cols)

\* pd.DataFrame([user_input]): one column per key, in the dict's insertion order
DataFrame(keys, value) == [cols |-> keys, val |-> [c \in Range(keys) |-> value[c]]]

\* a column assignment that puts a new column first instead of last
SetColumnFirst(df, c, v) ==
    [cols |-> IF HasColumn(df, c) THEN df.cols ELSE <<c>> \o df.cols,
     val  |-> [k \in Range(df.cols) \cup {c} |-> IF k = c THEN v ELSE df.val[k]]]

\* df[c] = v: replaces the column in place, or appends a new one at the end
SetColumn(df, c, v) ==
    [cols |-> IF HasColumn(df, c) THEN df.cols ELSE Append(df.cols, c),
     val  |-> [k \in Range(df.cols) \cup {c} |-> IF k = c THEN v ELSE df.val[k]]]

-----------------------------------------------------------------------------
(* perform_feature_engineering *)

bins == <<0, 20, 30, 40, 50, 100>>
labels == <<"Teen", "20s", "30s", "40s", "50+">>
NaN == "NaN"

\* binning with left-closed intervals [a, b)
pd_cut_left(x) ==
    IF \E i \in 1..Len(labels) : bins[i] <= x /\ x < bins[i + 1]
    THEN labels[CHOOSE i \in 1..Len(labels) : bins[i] <= x /\ x < bins[i + 1]]
    ELSE NaN

\* pd.cut(x, bins, labels) with the default right=True, include_lowest=False:
\* the label of the interval (bins[i], bins[i+1]] holding x, NaN when none does
pd_cut(x) ==
    IF \E i \in 1..Len(labels) : bins[i] < x /\ x <= bins[i + 1]
    THEN labels[CHOOSE i \in 1..Len(labels) : bins[i] < x /\ x <= bins[i + 1]]
    ELSE NaN

\* a clip that leaves the value alone
clip_none(x, lower) == x

\* Series.clip(lower=...)
clip(x, lower) == IF x < lower THEN lower ELSE x

\* float division n / d; pandas yields inf or NaN, not an exception, when d = 0
Divide(n, d) == [num |-> n, den |-> d, finite |-> d /= 0]

\* an exposure duration floored at zero
ExposureClamped(age, first) == IF age - first < 0 THEN 0 ELSE age - first

\* df['Age'] - df['First sexual intercourse']
HPV_Exposure_Duration(age, first) == age - first

\* (df['Age'] - 12).clip(lower=1)
DensityDivisor(age) == clip(age - 12, 1)

Returned(df) == [raised |-> FALSE, key |-> "", df |-> df]
KeyError(k) == [raised |-> TRUE, key |-> k, df |-> EmptyFrame]

perform_feature_engineering(df) ==
    IF ~HasColumn(df, "Age") THEN KeyError("Age")
    ELSE
      LET age == df.val["Age"]
          d1 == SetColumn(df, "Age_Group", pd_cut(age))
      IN
      IF ~HasColumn(d1, "First sexual intercourse")
      THEN KeyError("First sexual intercourse")
      ELSE
        LET first == d1.val["First sexual intercourse"]
            d2 == SetColumn(d1, "First_Sex_Age", first)
            d3 == SetColumn(d2, "HPV_Exposure_Duration",
                            HPV_Exposure_Duration(age, first))
        IN
        IF ~HasColumn(d3, "Num of pregnancies")
        THEN KeyError("Num of pregnancies")
        ELSE Returned(SetColumn(d3, "Pregnancy_Density",
                 Divide(d3.val["Num of pregnancies"], DensityDivisor(age))))

-----------------------------------------------------------------------------
(* The form and the predictor *)

\* user_input after the loop over input_feature_list: one st.number_input per name
FormValues(age, first, pregnancies) ==
    [c \in Range(input_feature_list) |->
        IF c = "Age" THEN age
        ELSE IF c = "First sexual intercourse" THEN first
        ELSE IF c = "Num of pregnancies" THEN pregnancies
        ELSE 0]

\* values typed into the form before a submit; 0 is every widget's default
FormAges == {0, 28, 101}
FormFirstSexAges == {0, 17}
FormPregnancies == {0, 2}

Without(seq, k) == SelectSeq(seq, LAMBDA c : c /= k)

\* the objects a pickle file can hold, and the file being absent or unreadable
FileStates == {"missing", "corrupt", "invalid", "valid"}

\* pipeline.predict / pipeline.predict_proba on the loaded object: an object
\* without these methods raises AttributeError; a fitted pipeline is opaque and
\* returns a label or raises
PredictOutcomes(kind) ==
    IF kind = "valid" THEN {"low", "high", "failure"} ELSE {"failure"}

Msg(kind, arg) == [kind |-> kind, arg |-> arg]

\* lines 121-150 of main: what is shown for an outcome of predict
ResultMessages(outcome) ==
    IF outcome = "failure" THEN << Msg("PredictionError", "") >>
    ELSE IF outcome = "high" THEN << Msg("HighRisk", ""), Msg("Confidence", "") >>
    ELSE << Msg("LowRisk", ""), Msg("Confidence", "") >>

-----------------------------------------------------------------------------
(* Harness: perform_feature_engineering and the submit branch of main on a    *)
(* one-row frame that has every form column, or lacks one of them             *)

NoResult == [raised |-> FALSE, key |-> "", df |-> EmptyFrame]

\* a frame built from the form's keys with one of them left out
FrameWithout(k, age, first, pregnancies) ==
    DataFrame(Without(input_feature_list, k), FormValues(age, first, pregnancies))

\* line 113: the call is outside the try block, so a KeyError leaves main
H_FeatureEngineering ==
    /\ h_pc = "submitted"
    /\ LET r == perform_feature_engineering(h_input) IN
         /\ h_result' = r
         /\ h_pc' = IF r.raised THEN "unhandled" ELSE "engineered"
         /\ h_outcome' = IF r.raised THEN "KeyError" ELSE h_outcome
    /\ UNCHANGED <<h_input, appVars>>

\* lines 117-150: predict and predict_proba inside try / except Exception
H_Predict ==
    /\ h_pc = "engineered"
    /\ \E o \in PredictOutcomes("valid") :
         /\ h_outcome' = o
         /\ h_pc' = "shown"
    /\ UNCHANGED <<h_input, h_result, appVars>>

-----------------------------------------------------------------------------
(* load_pipeline under @st.cache_resource *)

None == [kind |-> "None", id |-> 0]

NoEntry == [filled |-> FALSE, value |-> None, messages |-> << >>]

\* lines 22-31, the function body: joblib.load and the two except clauses.
\* content is what the path holds, n numbers this read (object identity).
load_pipeline(filepath, content, n) ==
    IF content = "missing"
    THEN [filled |-> TRUE, value |-> None,
          messages |-> << Msg("FileNotFound", filepath), Msg("PlaceFileHint", "") >>]
    ELSE IF content = "corrupt"
    THEN [filled |-> TRUE, value |-> None,
          messages |-> << Msg("LoadException", "") >>]
    ELSE [filled |-> TRUE, value |-> [kind |-> content, id |-> n],
          messages |-> << >>]

\* a compute lock that never excludes anyone
LockAlwaysFree(l) == TRUE

\* the cache's compute lock can be taken
LockFree(l) == l = 0

\* the script run starts: main calls load_pipeline, the cache is read without
\* the lock; a hit returns the stored value and replays the stored st messages
StartRun(s) ==
    /\ pc[s] = "idle"
    /\ IF cache.filled
       THEN /\ loaded' = [loaded EXCEPT ![s] = cache]
            /\ pc' = [pc EXCEPT ![s] = "main"]
       ELSE /\ pc' = [pc EXCEPT ![s] = "wait"]
            /\ UNCHANGED loaded
    /\ UNCHANGED <<file, cache, lock, readCount, view, harnessVars>>

\* cache miss: take the compute lock, then look the key up again
AcquireLock(s) ==
    /\ pc[s] = "wait"
    /\ LockFree(lock)
    /\ IF cache.filled
       THEN /\ loaded' = [loaded EXCEPT ![s] = cache]
            /\ pc' = [pc EXCEPT ![s] = "main"]
            /\ UNCHANGED lock
       ELSE /\ lock' = s
            /\ pc' = [pc EXCEPT ![s] = "compute"]
            /\ UNCHANGED loaded
    /\ UNCHANGED <<file, cache, readCount, view, harnessVars>>

\* still a miss under the lock: run the function body, store its return value
\* (None included) with the st messages it emitted, release the lock
Compute(s) ==
    /\ pc[s] = "compute"
    /\ readCount < MaxReads
    /\ LET r == load_pipeline(PIPELINE_FILEPATH, file, readCount + 1) IN
         /\ cache' = r
         /\ loaded' = [loaded EXCEPT ![s] = r]
    /\ readCount' = readCount + 1
    /\ lock' = 0
    /\ pc' = [pc EXCEPT ![s] = "main"]
    /\ UNCHANGED <<file, view, harnessVars>>

-----------------------------------------------------------------------------
(* main after load_pipeline has returned (lines 67-155) *)

\* a guard that lets any load result through
AnyPipeline(pipeline) == TRUE

\* line 77: if pipeline is not None
PipelineLoaded(pipeline) == pipeline /= None

NoView ==
    [ran |-> FALSE, pipeline |-> None, submitted |-> FALSE, predictCalled |-> FALSE,
     record |-> EmptyFrame, outcome |-> "none", messages |-> << >>]

\* lines 108-150: the submit branch, on the values the form returned
Submit(pipeline, replayed, age, first, pregnancies, outcome) ==
    LET input_df == DataFrame(input_feature_list, FormValues(age, first, pregnancies))
        engineered == perform_feature_engineering(input_df)
    IN
    IF engineered.raised
    THEN [ran |-> TRUE, pipeline |-> pipeline, submitted |-> TRUE,
          predictCalled |-> FALSE, record |-> EmptyFrame,
          outcome |-> "KeyError", messages |-> replayed]
    ELSE [ran |-> TRUE, pipeline |-> pipeline, submitted |-> TRUE,
          predictCalled |-> TRUE, record |-> engineered.df,
          outcome |-> outcome, messages |-> replayed \o ResultMessages(outcome)]

Main(s) ==
    /\ pc[s] = "main"
    /\ LET pipeline == loaded[s].value
           replayed == loaded[s].messages
       IN
       IF PipelineLoaded(pipeline)
       THEN \/ \E age \in FormAges, first \in FormFirstSexAges,
                  pregnancies \in FormPregnancies,
                  outcome \in PredictOutcomes(pipeline.kind) :
                 view' = Submit(pipeline, replayed, age, first, pregnancies, outcome)
            \/ view' = [NoView EXCEPT !.ran = TRUE, !.pipeline = pipeline,
                          !.messages = replayed \o << Msg("FillFormInfo", "") >>]
       ELSE view' = [NoView EXCEPT !.ran = TRUE, !.pipeline = pipeline,
                       !.messages = replayed \o << Msg("AppCannotRun", PIPELINE_FILEPATH) >>]
    /\ pc' = [pc EXCEPT ![s] = "idle"]
    /\ loaded' = [loaded EXCEPT ![s] = NoEntry]
    /\ UNCHANGED <<file, cache, lock, readCount, harnessVars>>

\* the environment: the file at PIPELINE_FILEPATH is added, removed or replaced
ReplaceArtifact ==
    /\ \E f \in FileStates \ {file} : file' = f
    /\ UNCHANGED <<cache, lock, pc, loaded, readCount, view, harnessVars>>

-----------------------------------------------------------------------------
(* Specifications *)

HarnessIdle ==
    /\ h_pc = "off"
    /\ h_input = EmptyFrame
    /\ h_result = NoResult
    /\ h_outcome = "none"

Init ==
    /\ file \in FileStates
    /\ cache = NoEntry
    /\ lock = 0
    /\ pc = [s \in Sessions |-> "idle"]
    /\ loaded = [s \in Sessions |-> NoEntry]
    /\ readCount = 0
    /\ view = NoView
    /\ HarnessIdle

Next ==
    \/ \E s \in Sessions : StartRun(s)
    \/ \E s \in Sessions : AcquireLock(s)
    \/ \E s \in Sessions : Compute(s)
    \/ \E s \in Sessions : Main(s)
    \/ ReplaceArtifact

Spec == Init /\ [][Next]_vars

InitFE ==
    /\ file = "valid"
    /\ cache = NoEntry
    /\ lock = 0
    /\ pc = [s \in Sessions |-> "idle"]
    /\ loaded = [s \in Sessions |-> NoEntry]
    /\ readCount = 0
    /\ view = NoView
    /\ h_pc = "submitted"
    /\ \/ \E a \in Ages, f \in FirstSexAges, n \in Pregnancies :
            h_input = DataFrame(input_feature_list, FormValues(a, f, n))
       \/ \E k \in Range(input_feature_list),
             a \in FormAges, f \in FormFirstSexAges, n \in FormPregnancies :
            h_input = FrameWithout(k, a, f, n)
    /\ h_result = NoResult
    /\ h_outcome = "none"

NextFE == H_FeatureEngineering \/ H_Predict

SpecFE == InitFE /\ [][NextFE]_vars

-----------------------------------------------------------------------------
(* Properties *)

\* perform_feature_engineering has returned a frame
Engineered == h_pc \in {"engineered", "shown"} /\ ~h_result.raised

InAge == h_input.val["Age"]
InFirst == h_input.val["First sexual intercourse"]
InPregnancies == h_input.val["Num of pregnancies"]
Out(c) == h_result.df.val[c]

C2_DensityDivisorFloored ==
    Engineered =>
        LET d == Out("Pregnancy_Density") IN
        /\ d.num = InPregnancies
        /\ d.den = (IF InAge - 12 > 1 THEN InAge - 12 ELSE 1)
        /\ d.den >= 1
        /\ d.finite
        /\ (InAge = 10 => d.den = 1)
        /\ (InAge = 12 => d.den = 1)
        /\ (InAge = 13 => d.den = 1)
        /\ (InAge = 20 => d.den = 8)

C2_Witness ==
    /\ Engineered
    /\ InAge = 10
    /\ InPregnancies = 2
    /\ Out("Pregnancy_Density") = [num |-> 2, den |-> 1, finite |-> TRUE]

\* C3: an Age in (0, 100] gets exactly the label of its right-closed bin:
\* (0,20] Teen, (20,30] 20s, (30,40] 30s, (40,50] 40s, (50,100] 50+.
C3_AgeGroupRightClosed ==
    (Engineered /\ 0 < InAge /\ InAge <= 100) =>
        /\ Out("Age_Group") /= NaN
        /\ (Out("Age_Group") = "Teen") <=> (InAge <= 20)
        /\ (Out("Age_Group") = "20s") <=> (20 < InAge /\ InAge <= 30)
        /\ (Out("Age_Group") = "30s") <=> (30 < InAge /\ InAge <= 40)
        /\ (Out("Age_Group") = "40s") <=> (40 < InAge /\ InAge <= 50)
        /\ (Out("Age_Group") = "50+") <=> (50 < InAge)

C3_Witness ==
    /\ Engineered
    /\ InAge = 50
    /\ Out("Age_Group") = "40s"

\* C4: for an Age outside (0, 100] the record handed to predict never carries a
\* missing Age_Group (the builder clamps or fails instead).
C4_NoMissingAgeGroupHanded ==
    view.predictCalled => view.record.val["Age_Group"] /= NaN

\* C5: when a form column is absent from the frame the failure is reported as
\* an error of that submission: no exception leaves main, and no record built
\* from the incomplete frame goes on to predict.
C5_MissingFieldReportedLocally ==
    (\E k \in Range(input_feature_list) : ~HasColumn(h_input, k)) =>
        h_pc \notin {"unhandled", "engineered", "shown"}

\* C6: the artifact file is read at most once, also when sessions race on the
\* first call, and every call returns the cached handle.
C6_ReadAtMostOnce ==
    /\ readCount <= 1
    /\ \A s \in Sessions : pc[s] = "main" => (cache.filled /\ loaded[s] = cache)

C6_Witness ==
    /\ readCount = 1
    /\ \E s, t \in Sessions :
         /\ s /= t
         /\ pc[s] = "main" /\ pc[t] = "main"
         /\ loaded[s].value.kind = "valid"
         /\ loaded[t].value = loaded[s].value

\* C7: a load with the file missing returns None with an error naming the path,
\* and a run whose pipeline is None shows an error, never calls predict and
\* never shows a result.
C7_RunWithoutPipeline ==
    /\ view.ran /\ view.pipeline = None =>
         /\ ~view.predictCalled
         /\ view.outcome = "none"
         /\ view.messages[Len(view.messages)] = Msg("AppCannotRun", PIPELINE_FILEPATH)
         /\ \A i \in 1..Len(view.messages) :
              view.messages[i].kind \notin {"HighRisk", "LowRisk", "Confidence"}

C7_MissingFileNamesPath ==
    \A s \in Sessions :
        (pc[s] = "compute" /\ file = "missing" /\ pc'[s] = "main") =>
            /\ loaded'[s].value = None
            /\ loaded'[s].messages[1] = Msg("FileNotFound", PIPELINE_FILEPATH)

C7_NoPredictionWithoutArtifact ==
    []C7_RunWithoutPipeline /\ [][C7_MissingFileNamesPath]_vars

C7_Witness ==
    /\ view.ran
    /\ view.pipeline = None
    /\ Len(view.messages) = 3
    /\ view.messages[1] = Msg("FileNotFound", PIPELINE_FILEPATH)
    /\ \E s \in Sessions : pc[s] = "main" /\ loaded[s].value = None

\* C8: a failed load leaves no persisted failure state: a script run made
\* after the cause is removed (a valid file is in place when it starts) does
\* not come back from load_pipeline at once with the earlier failed result.
C8_FailedLoadRetried ==
    [][\A s \in Sessions :
          (pc[s] = "idle" /\ pc'[s] = "main" /\ file = "valid")
              => loaded'[s].value /= None]_vars

\* C9: an object without predict / predict_proba is never returned as the
\* pipeline, and neither the form nor predict is reached with it.
C9_InvalidArtifactRejected ==
    /\ \A s \in Sessions : pc[s] = "main" => loaded[s].value.kind /= "invalid"
    /\ view.ran => view.pipeline.kind /= "invalid"

\* C10: HPV_Exposure_Duration is Age minus First sexual intercourse, negative
\* values included (28, 17 -> 11), and First_Sex_Age is First sexual intercourse.
C10_ExposureIsDifference ==
    Engineered =>
        /\ Out("HPV_Exposure_Duration") = InAge - InFirst
        /\ Out("First_Sex_Age") = InFirst
        /\ ((InAge = 28 /\ InFirst = 17) => Out("HPV_Exposure_Duration") = 11)

C10_Witness ==
    /\ Engineered
    /\ InFirst > InAge
    /\ Out("HPV_Exposure_Duration") < 0

====
